---------------------------- MODULE Spec2Model ----------------------------
(***************************************************************************)
(* A model of bored-engineer/fastxml: the Scanner (scanner.go), the entity *)
(* decoder (decode.go), the element helpers (element.go, directive.go,     *)
(* comment.go, procinst.go, name.go, chardata.go) and the xml.TokenReader  *)
(* adapter (xml.go).                                                       *)
(*                                                                         *)
(* A []byte is a sequence of byte values 0..255.  Go indexes from 0 and    *)
(* TLA+ sequences from 1: Slice(s, lo, hi) is Go's s[lo:hi] and At(s, i)   *)
(* is Go's s[i].  A run-time panic (index or slice bounds out of range) is *)
(* the error value "panic".                                                *)
(***************************************************************************)
EXTENDS Integers, Sequences, FiniteSets, TLC

VARIABLES
    buf,        \* Scanner.buf
    pos,        \* Scanner.pos
    op,         \* the last operation called: "New", "Next", "Seek", "Skip",
                \* "Reset", "Token", "DecodeEntities", "DecodeEntitiesAppend",
                \* "CharData"
    token,      \* the raw token the last call got from Next (Next itself, or
                \* Token when it read the Scanner)
    chardata,   \* the chardata flag the last call returned, when it was Next
    err,        \* the error the last call returned ("nil" for none)
    ret,        \* the position the last call returned, when it was Seek
    offset,     \* the offset the last call was given, when it was Seek
    whence,     \* the whence the last call was given, when it was Seek
    nexts,      \* the calls since NewScanner or Reset: 0, 1 or 2 when each was
                \* a Next, and 3 for more calls or a call of another kind
    trNext,     \* tokenReader.next: the pending end element (NilToken for nil)
    xtoken,     \* the xml.Token the last call returned, when it was Token
    given,      \* the scratch (or out) slice the last decoding call was given
    result,     \* the slice the last decoding call returned
    got,        \* what the last call of a token helper (Attrs, Element,
                \* IsComment and IsDirective) returned
    mark,       \* history: the offset a caller recorded with Offset() before
                \* a call of Next, and what that call returned
    doc,        \* history: the pieces buf was put together from
    open,       \* history: the names of the StartElements Token returned
                \* that no EndElement it returned has closed yet
    nested      \* history: every EndElement Token returned carried the name
                \* of the most recent unclosed StartElement

vars == <<buf, pos, op, token, chardata, err, ret, offset, whence, nexts,
          trNext, xtoken, given, result, got, mark, doc, open, nested>>

\* What the Scanner's own methods leave alone.
others == <<trNext, xtoken, given, result, got, mark, doc, open, nested>>

-----------------------------------------------------------------------------
(* Bytes *)

Ord ==
    ("\t" :> 9) @@ (" " :> 32) @@ ("!" :> 33) @@ ("\"" :> 34) @@ ("#" :> 35)
    @@ ("&" :> 38) @@ ("'" :> 39) @@ ("+" :> 43) @@ ("-" :> 45) @@ ("/" :> 47)
    @@ ("0" :> 48) @@ ("1" :> 49) @@ ("2" :> 50) @@ ("3" :> 51) @@ ("4" :> 52)
    @@ ("5" :> 53) @@ ("6" :> 54) @@ ("7" :> 55) @@ ("8" :> 56) @@ ("9" :> 57)
    @@ (":" :> 58) @@ (";" :> 59) @@ ("<" :> 60) @@ ("=" :> 61) @@ (">" :> 62)
    @@ ("?" :> 63) @@ ("A" :> 65) @@ ("C" :> 67) @@ ("D" :> 68) @@ ("F" :> 70)
    @@ ("T" :> 84) @@ ("[" :> 91) @@ ("]" :> 93)
    @@ ("a" :> 97) @@ ("b" :> 98) @@ ("c" :> 99) @@ ("d" :> 100) @@ ("e" :> 101)
    @@ ("f" :> 102) @@ ("g" :> 103) @@ ("k" :> 107) @@ ("l" :> 108)
    @@ ("m" :> 109) @@ ("n" :> 110) @@ ("o" :> 111) @@ ("p" :> 112)
    @@ ("q" :> 113) @@ ("s" :> 115) @@ ("t" :> 116) @@ ("u" :> 117)
    @@ ("v" :> 118) @@ ("x" :> 120) @@ ("z" :> 122)

\* The bytes of a text given as a tuple of one-character strings.
B(s) == [i \in 1..Len(s) |-> Ord[s[i]]]

At(s, i) == s[i + 1]

Slice(s, lo, hi) == SubSeq(s, lo + 1, hi)

\* bytes.IndexByte: the index of the first c in s, or -1.
IndexByte(s, c) ==
    IF \E i \in 1..Len(s) : s[i] = c
    THEN (CHOOSE i \in 1..Len(s) : s[i] = c /\ \A j \in 1..(i - 1) : s[j] # c) - 1
    ELSE -1

\* bytes.HasPrefix
HasPrefix(s, prefix) ==
    Len(s) >= Len(prefix) /\ SubSeq(s, 1, Len(prefix)) = prefix

\* bytes.HasSuffix
HasSuffix(s, suffix) ==
    Len(s) >= Len(suffix) /\ SubSeq(s, Len(s) - Len(suffix) + 1, Len(s)) = suffix

\* bytes.Index: the index of the first instance of sep in s, or -1.
Index(s, sep) ==
    LET hits == {i \in 0..(Len(s) - Len(sep)) : Slice(s, i, i + Len(sep)) = sep}
    IN  IF hits = {} THEN -1 ELSE CHOOSE i \in hits : \A j \in hits : i <= j

RECURSIVE Flat(_)
\* The concatenation of a sequence of byte sequences.
Flat(ss) == IF ss = <<>> THEN <<>> ELSE Head(ss) \o Flat(Tail(ss))

\* The bytes of the pieces d that a buffer is put together from.
RawOf(d) == Flat([i \in 1..Len(d) |-> d[i].raw])

\* The sequences of at most n elements of S.
SeqsUpTo(S, n) == UNION {[1..k -> S] : k \in 0..n}

-----------------------------------------------------------------------------
(* scanner.go *)

prefixCDATA == B(<<"<", "!", "[", "C", "D", "A", "T", "A", "[">>)

suffixCDATA == B(<<"]", "]", ">">>)

\* What a call returns and where it leaves the cursor.
Result(t, c, e, p) == [token |-> t, chardata |-> c, err |-> e, pos |-> p]

\* NextCharData with the trailing character data not flagged as chardata.
NextCharData_NoFlag(b, p) ==
    LET next == IndexByte(Slice(b, p + 1, Len(b)), Ord["<"])
    IN  IF next = -1
        THEN IF p < Len(b)
             THEN [token |-> Slice(b, p, Len(b)), chardata |-> FALSE, err |-> "nil", pos |-> Len(b)]
             ELSE [token |-> <<>>, chardata |-> FALSE, err |-> "EOF", pos |-> p]
        ELSE [token |-> Slice(b, p, p + next + 1), chardata |-> TRUE, err |-> "nil", pos |-> p + next + 1]

\* NextCharData signalling the end of input in place of the trailing
\* character data.
NextCharData_EOF(b, p) ==
    LET next == IndexByte(Slice(b, p + 1, Len(b)), Ord["<"])
    IN  IF next = -1
        THEN [token |-> <<>>, chardata |-> FALSE, err |-> "EOF", pos |-> p]
        ELSE [token |-> Slice(b, p, p + next + 1), chardata |-> TRUE, err |-> "nil", pos |-> p + next + 1]

\* Scanner.Next, the cursor not at a '<': character data up to the next '<'
\* or to the end of the buffer.
NextCharData(b, p) ==
    LET next == IndexByte(Slice(b, p + 1, Len(b)), Ord["<"])
    IN  IF next = -1
        THEN IF p < Len(b)
             THEN Result(Slice(b, p, Len(b)), TRUE, "nil", Len(b))
             ELSE Result(<<>>, FALSE, "EOF", p)
        ELSE Result(Slice(b, p, p + next + 1), TRUE, "nil", p + next + 1)

\* NextCDATA ending the section at the first '>', as a tag ends.
NextCDATA_FirstGT(b, p) ==
    LET end == IndexByte(Slice(b, p, Len(b)), Ord[">"])
    IN  IF end = -1
        THEN [token |-> Slice(b, p, Len(b)), chardata |-> TRUE, err |-> "errCDATASuffix", pos |-> p]
        ELSE [token |-> Slice(b, p, p + end + 1), chardata |-> TRUE, err |-> "nil", pos |-> p + end + 1]

\* NextCDATA moving the cursor past the section's content only, not past
\* the "]]>" it returns.
NextCDATA_ShortCursor(b, p) ==
    LET end == Index(Slice(b, p + 8, Len(b)), suffixCDATA)
    IN  IF end = -1
        THEN [token |-> Slice(b, p, Len(b)), chardata |-> TRUE, err |-> "errCDATASuffix", pos |-> p]
        ELSE [token |-> Slice(b, p, p + end + 11), chardata |-> TRUE, err |-> "nil", pos |-> p + end + 8]

\* Scanner.Next, the cursor at "<![CDATA[": character data through "]]>".
NextCDATA(b, p) ==
    LET end == Index(Slice(b, p + 8, Len(b)), suffixCDATA)
    IN  IF end = -1
        THEN Result(Slice(b, p, Len(b)), TRUE, "errCDATASuffix", p)
        ELSE Result(Slice(b, p, p + end + 11), TRUE, "nil", p + end + 11)

\* NextElement moving the cursor to the end of the buffer when no '>' follows.
NextElement_Advance(b, p) ==
    LET end == IndexByte(Slice(b, p, Len(b)), Ord[">"])
    IN  IF end = -1
        THEN [token |-> Slice(b, p, Len(b)), chardata |-> FALSE, err |-> "errElementSuffix", pos |-> Len(b)]
        ELSE [token |-> Slice(b, p, p + end + 1), chardata |-> FALSE, err |-> "nil", pos |-> p + end + 1]

\* Scanner.Next, the cursor at any other '<': a tag through the next '>'.
NextElement(b, p) ==
    LET end == IndexByte(Slice(b, p, Len(b)), Ord[">"])
    IN  IF end = -1
        THEN Result(Slice(b, p, Len(b)), FALSE, "errElementSuffix", p)
        ELSE Result(Slice(b, p, p + end + 1), FALSE, "nil", p + end + 1)

\* Scanner.Next on buffer b with the cursor at p.
ScannerNext(b, p) ==
    IF p = Len(b) THEN Result(<<>>, FALSE, "EOF", p)
    ELSE IF At(b, p) # Ord["<"] THEN NextCharData(b, p)
    ELSE IF HasPrefix(Slice(b, p, Len(b)), prefixCDATA) THEN NextCDATA(b, p)
    ELSE NextElement(b, p)

-----------------------------------------------------------------------------
(* element.go *)

\* IsElement: not a ProcInst or Directive.
IsElement(t) ==
    Len(t) >= 3 /\ At(t, 0) = Ord["<"] /\ At(t, 1) # Ord["!"] /\ At(t, 1) # Ord["?"]

\* IsSelfClosing: <element/>
IsSelfClosing(t) ==
    IF Len(t) <= 2 THEN FALSE ELSE At(t, Len(t) - 2) = Ord["/"]

\* IsEndElement: </element>
IsEndElement(t) ==
    Len(t) >= 2 /\ At(t, 0) = Ord["<"] /\ At(t, 1) = Ord["/"]

-----------------------------------------------------------------------------
(* scanner.go, continued *)

\* The depth after Skip's loop body has seen token t.
SkipDepth(depth, t, c) ==
    IF c \/ ~IsElement(t) THEN depth
    ELSE IF IsSelfClosing(t) THEN depth
    ELSE IF IsEndElement(t) THEN depth - 1
    ELSE depth + 1

RECURSIVE SkipLoop(_, _, _)
\* Scanner.Skip's loop from the cursor p at the given depth: the error it
\* returns and where it leaves the cursor.
SkipLoop(b, p, depth) ==
    IF ~(depth > 0) THEN [err |-> "nil", pos |-> p]
    ELSE LET r == ScannerNext(b, p)
         IN  IF r.err # "nil" THEN [err |-> r.err, pos |-> r.pos]
             ELSE SkipLoop(b, r.pos, SkipDepth(depth, r.token, r.chardata))

\* Scanner.Skip
ScannerSkip(b, p) == SkipLoop(b, p, 1)

\* The width of Go's int and int64 in the model (64 in the program): Seek's
\* arithmetic wraps at this width.
IntBits == 7

MaxInt == 2 ^ (IntBits - 1) - 1

MinInt == -(2 ^ (IntBits - 1))

\* Two's-complement wrap-around of x to the width of int.
Wrap(x) == ((x - MinInt) % (2 ^ IntBits)) + MinInt

SeekStart == 0

SeekCurrent == 1

SeekEnd == 2

\* SeekCheck without the check against the end of the buffer.
SeekCheck_NoUpper(b, p, abs) ==
    IF abs < 0 THEN [ret |-> p, err |-> "negative position", pos |-> p]
    ELSE [ret |-> abs, err |-> "nil", pos |-> abs]

\* Seek's bounds check on the absolute position abs.
SeekCheck(b, p, abs) ==
    IF abs < 0 THEN [ret |-> p, err |-> "negative position", pos |-> p]
    ELSE IF abs > Len(b) THEN [ret |-> p, err |-> "seek past end of buffer", pos |-> p]
    ELSE [ret |-> abs, err |-> "nil", pos |-> abs]

\* Seek taking an offset relative to the current position from the start.
ScannerSeek_CurrentFromStart(b, p, o, w) ==
    IF w = SeekStart THEN SeekCheck(b, p, o)
    ELSE IF w = SeekCurrent THEN SeekCheck(b, p, o)
    ELSE IF w = SeekEnd THEN SeekCheck(b, p, Wrap(Len(b) + o))
    ELSE [ret |-> p, err |-> "invalid whence", pos |-> p]

\* Scanner.Seek(offset, whence)
ScannerSeek(b, p, o, w) ==
    IF w = SeekStart THEN SeekCheck(b, p, o)
    ELSE IF w = SeekCurrent THEN SeekCheck(b, p, Wrap(p + o))
    ELSE IF w = SeekEnd THEN SeekCheck(b, p, Wrap(Len(b) + o))
    ELSE [ret |-> p, err |-> "invalid whence", pos |-> p]

-----------------------------------------------------------------------------
(* decode.go *)

\* A Go slice: its bytes (len(s) of them), its capacity, whether it is nil,
\* and the array it points into: "new" for one the call allocated, "in" for
\* that of the input span, "given" for that of the caller's scratch or out.
SliceOf(bytes, capacity) ==
    [b |-> bytes, cap |-> capacity, isnil |-> FALSE, arr |-> "new"]

NilSlice == [b |-> <<>>, cap |-> 0, isnil |-> TRUE, arr |-> "nil"]

\* The input span in, or a part of it, returned as it is.
Borrow(bytes, capacity) ==
    [b |-> bytes, cap |-> capacity, isnil |-> FALSE, arr |-> "in"]

\* A slice the caller made and hands in as scratch or out.
Caller(bytes, capacity) ==
    [b |-> bytes, cap |-> capacity, isnil |-> FALSE, arr |-> "given"]

\* append(s, more...): in place while the capacity holds, else into a new
\* array whose capacity is what is needed and grow more (the run-time picks it).
AppendBytes(s, more, grow) ==
    IF Len(s.b) + Len(more) <= s.cap
    THEN [s EXCEPT !.b = s.b \o more, !.isnil = s.isnil /\ more = <<>>]
    ELSE SliceOf(s.b \o more, Len(s.b) + Len(more) + grow)

\* The value of a digit byte as strconv reads it, or 36 for a byte that is
\* no digit or letter.
DigitValue(c) ==
    IF c >= Ord["0"] /\ c <= Ord["9"] THEN c - Ord["0"]
    ELSE IF c >= Ord["a"] /\ c <= Ord["z"] THEN c - Ord["a"] + 10
    ELSE IF c >= Ord["A"] /\ c <= 90 THEN c - Ord["A"] + 10
    ELSE 36

MaxInt32 == 2147483647

MaxRune == 1114111

RECURSIVE ParseDigits(_, _, _)
\* strconv.ParseUint's digit loop on s in the given base, from the value acc:
\* the value when it is at most MaxInt32, -1 when it is MaxInt32 + 1, -2 when
\* it is larger, -3 when a byte is no digit of the base.
ParseDigits(s, base, acc) ==
    IF s = <<>> THEN acc
    ELSE LET d == DigitValue(Head(s))
             room == MaxInt32 - d
         IN  IF d >= base THEN -3
             ELSE IF acc < 0 THEN ParseDigits(Tail(s), base, -2)
             ELSE IF acc <= room \div base
             THEN ParseDigits(Tail(s), base, acc * base + d)
             ELSE IF (room - base * (room \div base)) = base - 1
                     /\ acc = (room \div base) + 1
             THEN ParseDigits(Tail(s), base, -1)
             ELSE ParseDigits(Tail(s), base, -2)

\* strconv.ParseInt, the value un of the digits given its sign: [ok, num].
SignedValue(un, neg) ==
    IF un = -3 \/ un = -2 THEN [ok |-> FALSE, num |-> 0]
    ELSE IF un = -1
    THEN IF neg THEN [ok |-> TRUE, num |-> -MaxInt32 - 1]
         ELSE [ok |-> FALSE, num |-> 0]
    ELSE [ok |-> TRUE, num |-> IF neg THEN -un ELSE un]

\* strconv.ParseInt, the digits behind the sign.
Unsigned(digits, base) ==
    IF digits = <<>> THEN -3 ELSE ParseDigits(digits, base, 0)

\* strconv.ParseInt(s, base, 32): [ok, num], ok being FALSE for an error (a
\* syntax error or a value out of range).
ParseInt(s, base) ==
    IF s # <<>> /\ (Head(s) = Ord["+"] \/ Head(s) = Ord["-"])
    THEN SignedValue(Unsigned(Tail(s), base), Head(s) = Ord["-"])
    ELSE SignedValue(Unsigned(s, base), FALSE)

\* utf8.EncodeRune: the UTF-8 bytes of r, those of U+FFFD for a value that is
\* no Unicode scalar value.
EncodeRune(r) ==
    IF r < 0 \/ r > MaxRune \/ (r >= 55296 /\ r <= 57343)
    THEN <<239, 191, 189>>
    ELSE IF r <= 127 THEN <<r>>
    ELSE IF r <= 2047 THEN <<192 + (r \div 64), 128 + (r % 64)>>
    ELSE IF r <= 65535
    THEN <<224 + (r \div 4096), 128 + ((r \div 64) % 64), 128 + (r % 64)>>
    ELSE <<240 + (r \div 262144), 128 + ((r \div 4096) % 64),
           128 + ((r \div 64) % 64), 128 + (r % 64)>>

\* HTMLEntity, were "ne" to stand for two characters (U+2260 U+20D2), as
\* names of the HTML5 table do.
HTMLEntity_TwoRunes ==
    [n \in {B(<<"p", "o", "u", "n", "d">>), B(<<"n", "e">>)} |->
        IF n = B(<<"n", "e">>) THEN <<226, 137, 160, 226, 131, 146>>
        ELSE <<194, 163>>]

\* The names of encoding/xml's HTMLEntity table the model knows, with the
\* UTF-8 bytes of their characters (U+00A3, U+2260).
HTMLEntity ==
    [n \in {B(<<"p", "o", "u", "n", "d">>), B(<<"n", "e">>)} |->
        IF n = B(<<"n", "e">>) THEN <<226, 137, 160>> ELSE <<194, 163>>]

\* What a decoding call returns: a slice and an error.
Decoded(s, e) == [out |-> s, err |-> e]

\* What decoding one reference gives: the scratch slice to go on with, or
\* the error to return.
One(ok, e, s) == [ok |-> ok, err |-> e, s |-> s]

\* decodeEntities, the rune n parsed from a '#' reference: it is encoded in
\* place, behind the bytes of scratch.  scratch is extended when its
\* capacity holds four more bytes; when it does not, scratch[size:size+4]
\* is beyond the capacity and panics.
DecodeRune(scratch, n) ==
    IF ~n.ok THEN One(FALSE, "failed to decode", scratch)
    ELSE IF scratch.cap >= Len(scratch.b) + 4
    THEN One(TRUE, "nil",
              [scratch EXCEPT !.b = scratch.b \o EncodeRune(n.num), !.isnil = FALSE])
    ELSE One(FALSE, "panic", scratch)

\* decodeEntities, a '#' reference whose text is str.
DecodeNumeric(scratch, str, base) == DecodeRune(scratch, ParseInt(str, base))

\* decodeEntities, the bytes a name stands for (none for an unknown name).
EntityBytes(entity) ==
    IF entity = B(<<"l", "t">>) THEN B(<<"<">>)
    ELSE IF entity = B(<<"g", "t">>) THEN B(<<">">>)
    ELSE IF entity = B(<<"a", "m", "p">>) THEN B(<<"&">>)
    ELSE IF entity = B(<<"a", "p", "o", "s">>) THEN B(<<"'">>)
    ELSE IF entity = B(<<"q", "u", "o", "t">>) THEN B(<<"\"">>)
    ELSE IF entity \in DOMAIN HTMLEntity THEN HTMLEntity[entity]
    ELSE <<>>

\* decodeEntities, a reference by name.
DecodeNamed(scratch, entity, grow) ==
    IF EntityBytes(entity) = <<>> THEN One(FALSE, "unknown XML entity", scratch)
    ELSE One(TRUE, "nil", AppendBytes(scratch, EntityBytes(entity), grow))

\* decodeEntities, one reference: in[start] is the byte after its '&' and
\* in[start+end] its ';'.
DecodeOne(scratch, in, start, end, grow) ==
    IF At(in, start) = Ord["#"]
    THEN IF At(in, start + 1) = Ord["x"]
         THEN DecodeNumeric(scratch, Slice(in, start + 2, start + end), 16)
         ELSE DecodeNumeric(scratch, Slice(in, start + 1, start + end), 10)
    ELSE DecodeNamed(scratch, Slice(in, start, start + end), grow)

RECURSIVE DecodeLoop(_, _, _, _)

\* decodeEntities, "Find next entity": semi is the index of the ';' of the
\* reference just decoded and idx that of the next '&' from there (or -1).
\* The bytes from semi+1 on are appended only when no '&' follows.
FindNext(scratch, in, semi, idx, grow) ==
    IF idx # -1 THEN DecodeLoop(scratch, in, semi + idx + 1, grow)
    ELSE Decoded(AppendBytes(scratch, Slice(in, semi + 1, Len(in)), grow), "nil")

\* decodeEntities, after one reference: an error is returned with in, not
\* with scratch.
AfterOne(r, in, semi, grow) ==
    IF ~r.ok THEN Decoded(Borrow(in, Len(in)), r.err)
    ELSE FindNext(r.s, in, semi, IndexByte(Slice(in, semi, Len(in)), Ord["&"]), grow)

\* decodeEntities, one turn of the loop, end being the index of the next ';'
\* from start (or -1).
Turn(scratch, in, start, end, grow) ==
    IF end = -1 THEN Decoded(Borrow(in, Len(in)), "expected ';'")
    ELSE AfterOne(DecodeOne(scratch, in, start, end, grow), in, start + end, grow)

\* decodeEntities' loop, start being the index after the '&' at hand.
DecodeLoop(scratch, in, start, grow) ==
    Turn(scratch, in, start, IndexByte(Slice(in, start, Len(in)), Ord[";"]), grow)

\* decodeEntities(scratch, in, start): start is the index of the first '&'.
decodeEntities(scratch, in, start, grow) ==
    DecodeLoop(AppendBytes(scratch, Slice(in, 0, start), grow), in, start + 1, grow)

\* DecodeEntities, were its fast path to copy the span as the slow path does.
DecodeEntities_Copy(in, scratch, grow) ==
    IF IndexByte(in, Ord["&"]) = -1
    THEN Decoded(AppendBytes(IF scratch.isnil THEN SliceOf(<<>>, Len(in)) ELSE scratch,
                             in, grow), "nil")
    ELSE decodeEntities(IF scratch.isnil THEN SliceOf(<<>>, Len(in)) ELSE scratch,
                        in, IndexByte(in, Ord["&"]), grow)

\* DecodeEntities(in, scratch)
DecodeEntities(in, scratch, grow) ==
    IF IndexByte(in, Ord["&"]) = -1 THEN Decoded(Borrow(in, Len(in)), "nil")
    ELSE decodeEntities(IF scratch.isnil THEN SliceOf(<<>>, Len(in)) ELSE scratch,
                        in, IndexByte(in, Ord["&"]), grow)

\* DecodeEntitiesAppend(out, in)
DecodeEntitiesAppend(out, in, grow) ==
    IF IndexByte(in, Ord["&"]) = -1 THEN Decoded(AppendBytes(out, in, grow), "nil")
    ELSE decodeEntities(out, in, IndexByte(in, Ord["&"]), grow)

-----------------------------------------------------------------------------
(* chardata.go *)

\* CharData(charToken, scratch)
CharData(charToken, scratch, grow) ==
    IF HasPrefix(charToken, prefixCDATA) /\ HasSuffix(charToken, suffixCDATA)
    THEN Decoded(Borrow(Slice(charToken, 9, Len(charToken) - 3), Len(charToken) - 9), "nil")
    ELSE DecodeEntities(charToken, scratch, grow)

-----------------------------------------------------------------------------
(* directive.go, comment.go, procinst.go, name.go, element.go *)

\* IsDirective: <!text>
IsDirective(b) ==
    /\ Len(b) >= 4
    /\ At(b, 0) = Ord["<"] /\ At(b, 1) = Ord["!"]
    /\ At(b, 2) # Ord["-"] /\ At(b, 3) # Ord["-"]

\* Directive: the contents of a directive.
Directive(b) == IF Len(b) < 3 THEN <<>> ELSE Slice(b, 2, Len(b) - 1)

\* IsComment: <!--
IsComment(t) ==
    /\ Len(t) > 4
    /\ At(t, 0) = Ord["<"] /\ At(t, 1) = Ord["!"]
    /\ At(t, 2) = Ord["-"] /\ At(t, 3) = Ord["-"]

\* Comment: the contents of a comment.
Comment(t) == IF Len(t) <= 7 THEN <<>> ELSE Slice(t, 4, Len(t) - 3)

\* IsProcInst: b[1] == '?'; it panics on a token of fewer than two bytes.
IsProcInst(b) ==
    IF Len(b) < 2 THEN [panic |-> TRUE, is |-> FALSE]
    ELSE [panic |-> FALSE, is |-> At(b, 1) = Ord["?"]]

\* ProcInst: the target and the inst of a <?target inst?>; a slice whose low
\* bound exceeds its high bound panics.
ProcInst(b) ==
    LET idx == IndexByte(b, Ord[" "])
    IN  IF idx # -1
        THEN IF idx < 2 \/ idx + 1 > Len(b) - 2
             THEN [panic |-> TRUE, target |-> <<>>, inst |-> <<>>]
             ELSE [panic |-> FALSE, target |-> Slice(b, 2, idx),
                   inst |-> Slice(b, idx + 1, Len(b) - 2)]
        ELSE IF Len(b) - 2 < 2
             THEN [panic |-> TRUE, target |-> <<>>, inst |-> <<>>]
             ELSE [panic |-> FALSE, target |-> Slice(b, 2, Len(b) - 2), inst |-> <<>>]

\* Name: the space and local values of a name, split at its first ':'.
Name(t) ==
    LET idx == IndexByte(t, Ord[":"])
    IN  IF idx # -1
        THEN [space |-> Slice(t, 0, idx), local |-> Slice(t, idx + 1, Len(t))]
        ELSE [space |-> <<>>, local |-> t]

\* Element: the name and the attributes section of a tag.  The slice
\* token[start:end] panics when start exceeds end.
Element(t) ==
    IF Len(t) < 3 THEN [panic |-> FALSE, name |-> <<>>, attrs |-> <<>>]
    ELSE LET start == IF At(t, 1) = Ord["/"] THEN 2 ELSE 1
             end == IF At(t, Len(t) - 2) = Ord["/"] THEN Len(t) - 2 ELSE Len(t) - 1
         IN  IF start > end THEN [panic |-> TRUE, name |-> <<>>, attrs |-> <<>>]
             ELSE LET space == IndexByte(Slice(t, start, end), Ord[" "])
                  IN  IF space # -1
                      THEN [panic |-> FALSE, name |-> Slice(t, start, start + space),
                            attrs |-> Slice(t, space + start + 1, end)]
                      ELSE [panic |-> FALSE, name |-> Slice(t, start, end), attrs |-> <<>>]

\* unicode.IsSpace, on the one-byte runes below 0x80.
IsSpace(c) == c \in {9, 10, 11, 12, 13, 32}

\* bytes.IndexFunc(s, notSpace), on one-byte runes.
IndexNotSpace(s) ==
    LET hits == {i \in 0..(Len(s) - 1) : ~IsSpace(At(s, i))}
    IN  IF hits = {} THEN -1 ELSE CHOOSE i \in hits : \A j \in hits : i <= j

\* bytes.LastIndexFunc(s, notSpace), on one-byte runes.
LastIndexNotSpace(s) ==
    LET hits == {i \in 0..(Len(s) - 1) : ~IsSpace(At(s, i))}
    IN  IF hits = {} THEN -1 ELSE CHOOSE i \in hits : \A j \in hits : i >= j

\* RawAttrs, the key offsets of the attribute whose '=' is at equals.
KeyStart(a, off, equals) ==
    LET idx == IndexNotSpace(Slice(a, off, equals))
    IN  IF idx > 0 THEN off + idx ELSE off

KeyEnd(a, keyStart, equals) ==
    LET idx == LastIndexNotSpace(Slice(a, keyStart, equals))
    IN  IF idx > 0 THEN keyStart + idx + 1 ELSE keyStart

RECURSIVE RawAttrs(_, _, _)
\* RawAttrs' loop from off, with a callback that never stops: the (key, value)
\* pairs it was called with, in order, and the error returned.
RawAttrs(a, off, pairs) ==
    LET equals == IF off < Len(a) THEN IndexByte(Slice(a, off, Len(a)), Ord["="]) ELSE -1
    IN  IF equals = -1
        THEN IF IndexNotSpace(Slice(a, off, Len(a))) # -1
             THEN [pairs |-> pairs, err |-> "expected whitespace"]
             ELSE [pairs |-> pairs, err |-> "nil"]
        ELSE LET eq == equals + off
                 keyStart == KeyStart(a, off, eq)
                 keyEnd == KeyEnd(a, keyStart, eq)
                 q1 == IndexByte(Slice(a, eq + 1, Len(a)), Ord["\""])
                 valueStart == q1 + eq + 2
                 q2 == IndexByte(Slice(a, valueStart, Len(a)), Ord["\""])
                 valueEnd == q2 + valueStart
             IN  IF IndexNotSpace(Slice(a, off, eq)) = -1
                 THEN [pairs |-> pairs, err |-> "errAttrKeyWhitespace"]
                 ELSE IF q1 = -1 THEN [pairs |-> pairs, err |-> "errAttrPrefix"]
                 ELSE IF q2 = -1 THEN [pairs |-> pairs, err |-> "errAttrSuffix"]
                 ELSE RawAttrs(a, valueEnd + 1,
                        Append(pairs, [key |-> Slice(a, keyStart, keyEnd),
                                       value |-> Slice(a, valueStart, valueEnd)]))

\* Attrs, were RawAttrs not to look at what follows the last attribute.
Attrs_NoTrailingCheck(attrsToken) ==
    [RawAttrs(attrsToken, 0, <<>>) EXCEPT
        !.err = IF @ = "expected whitespace" THEN "nil" ELSE @]

\* Attrs: RawAttrs with the offsets turned into slices of attrsToken.
Attrs(attrsToken) == RawAttrs(attrsToken, 0, <<>>)

-----------------------------------------------------------------------------
(* xml.go *)

NoName == [space |-> <<>>, local |-> <<>>]

\* An xml.Token: its kind ("nil" for no token), and the fields its kind has.
XToken(kind, name, attr, data, target) ==
    [kind |-> kind, name |-> name, attr |-> attr, data |-> data, target |-> target]

NilToken == XToken("nil", NoName, <<>>, <<>>, <<>>)

\* What a conversion returns: an xml.Token and an error.
Converted(t, e) == [tok |-> t, err |-> e]

\* XMLCharData, cd being what CharData returned.
CastCharData(cd) ==
    IF cd.err # "nil" THEN Converted(NilToken, cd.err)
    ELSE Converted(XToken("CharData", NoName, <<>>, cd.out.b, <<>>), "nil")

\* XMLCharData
XMLCharData(t) == CastCharData(CharData(t, NilSlice, 0))

\* XMLDirective
XMLDirective(t) == XToken("Directive", NoName, <<>>, Directive(t), <<>>)

\* XMLComment
XMLComment(t) == XToken("Comment", NoName, <<>>, Comment(t), <<>>)

\* XMLProcInst
XMLProcInst(t) ==
    IF ProcInst(t).panic THEN Converted(NilToken, "panic")
    ELSE Converted(XToken("ProcInst", NoName, <<>>, ProcInst(t).inst, ProcInst(t).target), "nil")

\* XMLName
XMLName(t) == Name(t)

RECURSIVE XMLAttrList(_, _)

\* XMLAttrs' callback on one pair, value being what XMLAttr's DecodeEntities
\* returned: the first error ends the iteration.
CastAttr(pairs, attrs, value) ==
    IF value.err # "nil" THEN [attrs |-> <<>>, err |-> value.err]
    ELSE XMLAttrList(Tail(pairs),
           Append(attrs, [name |-> XMLName(Head(pairs).key), value |-> value.out.b]))

\* XMLAttrs' callback over the pairs Attrs calls it with.
XMLAttrList(pairs, attrs) ==
    IF pairs = <<>> THEN [attrs |-> attrs, err |-> "nil"]
    ELSE CastAttr(pairs, attrs, DecodeEntities(Head(pairs).value, NilSlice, 0))

\* XMLAttrs, raw being what Attrs found and cast what the callback made of
\* it: an error of the callback comes before an error Attrs finds further on
\* in the token.
CastAttrs(raw, cast) ==
    IF cast.err # "nil" THEN cast
    ELSE IF raw.err # "nil" THEN [attrs |-> <<>>, err |-> raw.err]
    ELSE cast

\* XMLAttrs' iteration, raw being what Attrs found.
IterAttrs(raw) == CastAttrs(raw, XMLAttrList(raw.pairs, <<>>))

\* XMLAttrs
XMLAttrs(t) == IterAttrs(Attrs(t))

\* XMLStartElement, name being the element's name and attrs what XMLAttrs
\* returned.
CastStartElement(name, attrs) ==
    IF attrs.err # "nil" THEN Converted(NilToken, attrs.err)
    ELSE Converted(XToken("StartElement", XMLName(name), attrs.attrs, <<>>, <<>>), "nil")

\* XMLStartElement, el being what Element returned.
StartElementOf(el) ==
    IF el.panic THEN Converted(NilToken, "panic")
    ELSE CastStartElement(el.name, XMLAttrs(el.attrs))

\* XMLStartElement
XMLStartElement(t) == StartElementOf(Element(t))

\* XMLEndElement, el being what Element returned.
EndElementOf(el) ==
    IF el.panic THEN Converted(NilToken, "panic")
    ELSE Converted(XToken("EndElement", XMLName(el.name), <<>>, <<>>, <<>>), "nil")

\* XMLEndElement
XMLEndElement(t) == EndElementOf(Element(t))

\* XMLElement
XMLElement(t) ==
    IF IsEndElement(t) THEN XMLEndElement(t) ELSE XMLStartElement(t)

\* XMLToken
XMLToken(t, c) ==
    IF c THEN XMLCharData(t)
    ELSE IF IsDirective(t) THEN Converted(XMLDirective(t), "nil")
    ELSE IF IsComment(t) THEN Converted(XMLComment(t), "nil")
    ELSE IF IsProcInst(t).panic THEN Converted(NilToken, "panic")
    ELSE IF IsProcInst(t).is THEN XMLProcInst(t)
    ELSE XMLElement(t)

\* What tokenReader.Token returns and leaves behind: the token, the error,
\* the Scanner's cursor, the pending end element, and the raw token it read
\* from the Scanner (none when it returned the pending end element).
Returned(t, e, p, nx, raw) ==
    [tok |-> t, err |-> e, pos |-> p, next |-> nx, raw |-> raw]

\* TokenOf leaving an end element pending after every StartElement.
TokenOf_AlwaysPending(r, x) ==
    IF x.err = "panic"
    THEN [tok |-> NilToken, err |-> "unexpected panic", pos |-> r.pos, next |-> NilToken, raw |-> r.token]
    ELSE IF x.err # "nil"
    THEN [tok |-> NilToken, err |-> x.err, pos |-> r.pos, next |-> NilToken, raw |-> r.token]
    ELSE IF x.tok.kind = "StartElement"
    THEN [tok |-> x.tok, err |-> "nil", pos |-> r.pos,
          next |-> [x.tok EXCEPT !.kind = "EndElement"], raw |-> r.token]
    ELSE [tok |-> x.tok, err |-> "nil", pos |-> r.pos, next |-> NilToken, raw |-> r.token]

\* tokenReader.Token, r being what the Scanner's Next returned and x what
\* XMLToken made of it.  A panic is recovered and returned as an error.
TokenOf(r, x) ==
    IF x.err = "panic"
    THEN Returned(NilToken, "unexpected panic", r.pos, NilToken, r.token)
    ELSE IF x.err # "nil" THEN Returned(NilToken, x.err, r.pos, NilToken, r.token)
    ELSE IF x.tok.kind = "StartElement" /\ IsSelfClosing(r.token)
    THEN Returned(x.tok, "nil", r.pos,
                  XToken("EndElement", x.tok.name, <<>>, <<>>, <<>>), r.token)
    ELSE Returned(x.tok, "nil", r.pos, NilToken, r.token)

\* tokenReader.Token, r being what the Scanner's Next returned.
Convert(r) ==
    IF r.err # "nil" THEN Returned(NilToken, r.err, r.pos, NilToken, r.token)
    ELSE TokenOf(r, XMLToken(r.token, r.chardata))

\* tokenReader.Token with no end element pending: the Scanner's next token,
\* converted.
ReadToken(b, p) == Convert(ScannerNext(b, p))

\* Token, were it to read the Scanner whether or not an end element is pending.
TokenReaderToken_NoPending(b, p, nx) == ReadToken(b, p)

\* tokenReader.Token on a Scanner at p of b, with nx pending (NilToken for
\* tr.next == nil).
TokenReaderToken(b, p, nx) ==
    IF nx # NilToken THEN Returned(nx, "nil", p, NilToken, <<>>)
    ELSE ReadToken(b, p)

-----------------------------------------------------------------------------
(* The Scanner over raw byte buffers *)

\* The most pieces a buffer is put together from.
MaxFrags == 3

\* The pieces: text, the markers on their own, and whole tags.
RawFrags ==
    { B(<<"a">>), B(<<"<">>), B(<<">">>),
      prefixCDATA, suffixCDATA,
      B(<<"<", "a", ">">>), B(<<"<", "/", "a", ">">>) }

RawBufs == {Flat(d) : d \in SeqsUpTo(RawFrags, MaxFrags)}

\* The buffers Reset rebinds the Scanner to.
ResetBufs == {Flat(d) : d \in SeqsUpTo(RawFrags, 1)}

\* The offsets Seek is called with.
SeekOffsets == {MinInt, -1, 0, 1, MaxInt}

\* The whence values Seek is called with: io.SeekStart, io.SeekCurrent,
\* io.SeekEnd and a value that is none of them.
Whences == {SeekStart, SeekCurrent, SeekEnd, 3}

\* NewScanner(b), and NewXMLTokenReader over it: nothing returned yet, no
\* end element pending.
\* No offset has been recorded.
NoMark == [set |-> FALSE, o |-> 0, t |-> <<>>, c |-> FALSE, e |-> "nil"]

\* No token helper has been called.
NoCall == [call |-> "none"]

NewScanner(b) ==
    /\ buf = b
    /\ pos = 0
    /\ op = "New"
    /\ token = <<>>
    /\ chardata = FALSE
    /\ err = "nil"
    /\ ret = 0
    /\ offset = 0
    /\ whence = 0
    /\ nexts = 0
    /\ trNext = NilToken
    /\ xtoken = NilToken
    /\ given = NilSlice
    /\ result = NilSlice
    /\ got = NoCall
    /\ mark = NoMark
    /\ open = <<>>
    /\ nested = TRUE

Init ==
    /\ \E b \in RawBufs : NewScanner(b)
    /\ doc = <<>>

\* s.Next()
Next ==
    LET r == ScannerNext(buf, pos)
    IN  /\ op' = "Next"
        /\ token' = r.token
        /\ chardata' = r.chardata
        /\ err' = r.err
        /\ pos' = r.pos
        /\ ret' = 0
        /\ offset' = 0
        /\ whence' = 0
        /\ nexts' = IF nexts < 2 THEN nexts + 1 ELSE 3
        /\ UNCHANGED <<buf, others>>

\* s.Seek(o, w)
Seek ==
    \E o \in SeekOffsets, w \in Whences :
        LET r == ScannerSeek(buf, pos, o, w)
        IN  /\ op' = "Seek"
            /\ ret' = r.ret
            /\ err' = r.err
            /\ pos' = r.pos
            /\ offset' = o
            /\ whence' = w
            /\ token' = <<>>
            /\ chardata' = FALSE
            /\ nexts' = 3
            /\ UNCHANGED <<buf, others>>

\* s.Skip()
Skip ==
    LET r == ScannerSkip(buf, pos)
    IN  /\ op' = "Skip"
        /\ err' = r.err
        /\ pos' = r.pos
        /\ token' = <<>>
        /\ chardata' = FALSE
        /\ ret' = 0
        /\ offset' = 0
        /\ whence' = 0
        /\ nexts' = 3
        /\ UNCHANGED <<buf, others>>

\* s.Reset(b)
Reset ==
    \E b \in ResetBufs :
        /\ op' = "Reset"
        /\ buf' = b
        /\ pos' = 0
        /\ token' = <<>>
        /\ chardata' = FALSE
        /\ err' = "nil"
        /\ ret' = 0
        /\ offset' = 0
        /\ whence' = 0
        /\ nexts' = 0
        /\ UNCHANGED others

Step == Next \/ Seek \/ Skip \/ Reset

Spec == Init /\ [][Step]_vars

-----------------------------------------------------------------------------
(* Claims about the Scanner *)

\* No byte of s is c.
NoByte(s, c) == \A i \in 1..Len(s) : s[i] # c

\* The cursor p of b is at a '<'.
AtLT(b, p) == p < Len(b) /\ b[p + 1] = Ord["<"]

\* The bytes of b at the cursor p begin with "<![CDATA[".
AtCDATA(b, p) ==
    /\ p + 9 <= Len(b)
    /\ \A i \in 1..9 : b[p + i] = prefixCDATA[i]

\* The Go indexes, past the open marker at p, where a "]]>" of b begins.
Closes(b, p) ==
    {i \in (p + 9)..(Len(b) - 3) :
        b[i + 1] = Ord["]"] /\ b[i + 2] = Ord["]"] /\ b[i + 3] = Ord[">"]}

\* The Go indexes, from the cursor p on, of the '>' bytes of b.
GTs(b, p) == {i \in p..(Len(b) - 1) : b[i + 1] = Ord[">"]}

Least(S) == CHOOSE i \in S : \A j \in S : i <= j

C5_UnterminatedKeepsCursor ==
    [][(op' = "Next" /\ AtLT(buf, pos)) =>
        /\ (AtCDATA(buf, pos) /\ Closes(buf, pos) = {}) =>
              /\ err' = "errCDATASuffix"
              /\ token' = Slice(buf, pos, Len(buf))
              /\ pos' = pos
        /\ (~AtCDATA(buf, pos) /\ GTs(buf, pos) = {}) =>
              /\ err' = "errElementSuffix"
              /\ token' = Slice(buf, pos, Len(buf))
              /\ pos' = pos
        /\ (op = "Next" /\ err \in {"errCDATASuffix", "errElementSuffix"}) =>
              (err' = err /\ token' = token /\ pos' = pos)]_vars

\* Next was called twice on an unterminated CDATA section that holds a '>'.
C5_Witness ==
    /\ op = "Next" /\ nexts = 2 /\ err = "errCDATASuffix"
    /\ pos = 0 /\ token = buf /\ ~NoByte(buf, Ord[">"])

\* C6, as stated: Seek moves the cursor to target = base + offset when
\* 0 <= target <= length; it fails with the negative-position error when
\* target < 0 and with the past-end error when target > length, and a
\* failing Seek leaves the cursor where it was.
C6_SeekTarget ==
    [][op' = "Seek" =>
        LET base == IF whence' = SeekStart THEN 0
                    ELSE IF whence' = SeekCurrent THEN pos ELSE Len(buf)
            target == base + offset'
        IN  IF whence' \notin {SeekStart, SeekCurrent, SeekEnd}
            THEN err' # "nil" /\ pos' = pos
            ELSE IF target < 0
            THEN err' = "negative position" /\ pos' = pos
            ELSE IF target > Len(buf)
            THEN err' = "seek past end of buffer" /\ pos' = pos
            ELSE err' = "nil" /\ pos' = target /\ ret' = target]_vars

\* C7: the cursor is within the buffer.
C7_OffsetInBuffer == 0 <= pos /\ pos <= Len(buf)

\* A Seek past the end failed with the cursor at the end of the buffer.
C7_Witness ==
    op = "Seek" /\ err = "seek past end of buffer" /\ pos = Len(buf) /\ pos > 0

\* C8: at "<![CDATA[" with a "]]>" after it, Next returns as character data
\* the bytes through the first "]]>" and moves the cursor past it; at any
\* other '<' with a '>' after it, Next returns the bytes through the first
\* '>' with the chardata flag clear.
C8_CDATAToFirstClose ==
    [][(op' = "Next" /\ AtLT(buf, pos)) =>
        /\ (AtCDATA(buf, pos) /\ Closes(buf, pos) # {}) =>
              LET end == Least(Closes(buf, pos)) + 3
              IN  /\ err' = "nil" /\ chardata'
                  /\ token' = Slice(buf, pos, end)
                  /\ pos' = end
        /\ (~AtCDATA(buf, pos) /\ GTs(buf, pos) # {}) =>
              LET end == Least(GTs(buf, pos)) + 1
              IN  /\ err' = "nil" /\ ~chardata'
                  /\ token' = Slice(buf, pos, end)
                  /\ pos' = end]_vars

\* Next returned a CDATA section that holds a '<' and a '>'.
C8_Witness ==
    /\ op = "Next" /\ err = "nil" /\ chardata
    /\ HasPrefix(token, prefixCDATA) /\ HasSuffix(token, suffixCDATA)
    /\ ~NoByte(SubSeq(token, 10, Len(token) - 3), Ord["<"])
    /\ ~NoByte(SubSeq(token, 10, Len(token) - 3), Ord[">"])

-----------------------------------------------------------------------------
(* The Scanner and the adapter over documents *)

\* The most pieces a document is put together from.
MaxNodes == 4

\* The most bytes a scrap of markup has.
MaxScrap == 4

\* A piece of a document: what XML takes it for, the name of its element,
\* and its bytes.
Node(kind, name, raw) == [kind |-> kind, name |-> name, raw |-> raw]

Nodes ==
    { Node("start", "a", B(<<"<", "a", ">">>)),
      Node("end", "a", B(<<"<", "/", "a", ">">>)),
      Node("start", "b", B(<<"<", "b", ">">>)),
      Node("end", "b", B(<<"<", "/", "b", ">">>)),
      Node("empty", "a", B(<<"<", "a", "/", ">">>)),
      Node("empty", "b", B(<<"<", "b", " ", "k", "k", "=", "\"", "v", "\"", " ", "/", ">">>)),
      Node("text", "", B(<<"t">>)),
      Node("cdata", "", prefixCDATA \o B(<<"<", "a", ">">>) \o suffixCDATA),
      Node("comment", "", B(<<"<", "!", "-", "-", "c", "-", "-", ">">>)),
      Node("comment", "", B(<<"<", "!", "-", "-", ">", "<", "/", "a", ">", "-", "-", ">">>)),
      Node("directive", "", B(<<"<", "!", "D", ">">>)),
      Node("procinst", "", B(<<"<", "?", "p", " ", "q", "?", ">">>)) }

\* Bytes of markup on their own, for input that is no document.
Scraps ==
    { Node("scrap", "", B(<<"<">>)), Node("scrap", "", B(<<"/">>)),
      Node("scrap", "", B(<<">">>)), Node("scrap", "", B(<<"a">>)) }

RECURSIVE WellNested(_, _, _, _)
\* The pieces of d from the i-th on are those of a well-formed document,
\* stack being the names of the elements open before them and roots the
\* number of root elements before them: one root element, every end tag
\* closing the innermost open element, character data inside the root only.
WellNested(d, i, stack, roots) ==
    IF i > Len(d) THEN stack = <<>> /\ roots = 1
    ELSE LET n == d[i]
         IN  IF n.kind = "start"
             THEN /\ stack # <<>> \/ roots = 0
                  /\ WellNested(d, i + 1, Append(stack, n.name), 1)
             ELSE IF n.kind = "empty"
             THEN /\ stack # <<>> \/ roots = 0
                  /\ WellNested(d, i + 1, stack, 1)
             ELSE IF n.kind = "end"
             THEN /\ stack # <<>>
                  /\ stack[Len(stack)] = n.name
                  /\ WellNested(d, i + 1, SubSeq(stack, 1, Len(stack) - 1), roots)
             ELSE IF n.kind \in {"text", "cdata"}
             THEN stack # <<>> /\ WellNested(d, i + 1, stack, roots)
             ELSE IF n.kind \in {"comment", "directive", "procinst"}
             THEN WellNested(d, i + 1, stack, roots)
             ELSE FALSE

WellFormed(d) == WellNested(d, 1, <<>>, 0)

Docs == {d \in SeqsUpTo(Nodes, MaxNodes) : WellFormed(d)}

\* NewScanner over a well-formed document.
InitDoc ==
    /\ doc \in Docs
    /\ NewScanner(RawOf(doc))

SpecDoc == InitDoc /\ [][Next \/ Skip]_vars

\* NewXMLTokenReader(NewScanner(b)), b a well-formed document or scraps.
InitXML ==
    /\ doc \in Docs \cup SeqsUpTo(Scraps, MaxScrap)
    /\ NewScanner(RawOf(doc))

\* tr.Token()
Token ==
    LET r == TokenReaderToken(buf, pos, trNext)
        started == r.err = "nil" /\ r.tok.kind = "StartElement"
        ended == r.err = "nil" /\ r.tok.kind = "EndElement"
    IN  /\ op' = "Token"
        /\ xtoken' = r.tok
        /\ err' = r.err
        /\ pos' = r.pos
        /\ trNext' = r.next
        /\ token' = r.raw
        /\ chardata' = FALSE
        /\ ret' = 0
        /\ offset' = 0
        /\ whence' = 0
        /\ nexts' = 3
        /\ open' = IF started THEN Append(open, r.tok.name)
                   ELSE IF ended /\ open # <<>> THEN SubSeq(open, 1, Len(open) - 1)
                   ELSE open
        /\ nested' = (nested /\ (ended => (open # <<>> /\ open[Len(open)] = r.tok.name)))
        /\ UNCHANGED <<buf, given, result, got, mark, doc>>

SpecXML == InitXML /\ [][Token]_vars

-----------------------------------------------------------------------------
(* Claims about documents *)

\* The offset in the document d behind its k-th piece.
Off(d, k) == Len(RawOf(SubSeq(d, 1, k)))

RECURSIVE MatchEnd(_, _, _)
\* The index of the end tag that closes the depth-th element open before
\* the i-th piece of d (0 when there is none).
MatchEnd(d, i, depth) ==
    IF i > Len(d) THEN 0
    ELSE IF d[i].kind = "start" THEN MatchEnd(d, i + 1, depth + 1)
    ELSE IF d[i].kind = "end"
    THEN IF depth = 1 THEN i ELSE MatchEnd(d, i + 1, depth - 1)
    ELSE MatchEnd(d, i + 1, depth)

\* Next has just returned the i-th piece of the document, a start tag.
JustReturnedStart(i) ==
    /\ op = "Next" /\ err = "nil"
    /\ doc[i].kind = "start"
    /\ token = doc[i].raw
    /\ pos = Off(doc, i)

\* C2: on a well-formed buffer, when Next has just returned a start tag that
\* is not self-closing, Skip returns nil and leaves the cursor exactly past
\* the end tag that matches that start tag.
C2_SkipToMatchingEnd ==
    [][\A i \in 1..Len(doc) :
         (WellFormed(doc) /\ JustReturnedStart(i) /\ op' = "Skip")
           => (err' = "nil" /\ pos' = Off(doc, MatchEnd(doc, i + 1, 1)))]_vars

\* The raw tag t is self-closing: it ends with "/>".
EndsSelfClosing(t) == HasSuffix(t, B(<<"/", ">">>))

\* C3: when Token has returned a StartElement made from a self-closing raw
\* tag, the Token call that follows at once returns an EndElement with the
\* same Name, and the Scanner's offset is the same before and after it.
C3_EndAfterSelfClosing ==
    [][(op = "Token" /\ err = "nil" /\ xtoken.kind = "StartElement"
          /\ EndsSelfClosing(token) /\ op' = "Token")
         => (err' = "nil" /\ xtoken'.kind = "EndElement"
               /\ xtoken'.name = xtoken.name /\ pos' = pos)]_vars

\* C3's case: the EndElement of <b kk="v" /> came from the pending slot, the
\* Scanner still being just behind the tag.
C3_Witness ==
    /\ op = "Token" /\ err = "nil"
    /\ xtoken.kind = "EndElement" /\ xtoken.name.local = B(<<"b">>)
    /\ token = <<>>
    /\ \E i \in 1..Len(doc) :
         doc[i].kind = "empty" /\ doc[i].name = "b" /\ pos = Off(doc, i)

\* C4: for a well-formed input, the StartElements and EndElements Token
\* returns are balanced and correctly nested: every EndElement carries the
\* Name of the most recent unclosed StartElement, the depth never goes
\* negative, and no element is open at end-of-input.
C4_BalancedNesting ==
    WellFormed(doc) =>
        /\ nested
        /\ (op = "Token" /\ err = "EOF") => open = <<>>

-----------------------------------------------------------------------------
(* Decoding over spans put together from references and text *)

\* The most pieces a span is put together from.
MaxParts == 3

\* A piece: its bytes, and (dec) the bytes XML gives it once its reference
\* is replaced.  A "bad" piece is a reference that names no character.
Piece(kind, raw, dec) == [kind |-> kind, raw |-> raw, dec |-> dec]

Text(raw) == Piece("text", raw, raw)

Parts ==
    { Text(B(<<"a">>)),
      Piece("ref", B(<<"&", "l", "t", ";", "&", "g", "t", ";", "&", "a", "m", "p", ";",
                       "&", "a", "p", "o", "s", ";", "&", "q", "u", "o", "t", ";">>),
                   B(<<"<", ">", "&", "'", "\"">>)),
      Piece("ref", B(<<"&", "p", "o", "u", "n", "d", ";">>), <<194, 163>>),
      Piece("ref", B(<<"&", "#", "6", "5", ";">>), B(<<"A">>)),
      Piece("ref", B(<<"&", "#", "x", "4", "1", ";">>), B(<<"A">>)),
      Piece("bad", B(<<"&", "z", "z", ";">>), <<>>),
      Piece("open", prefixCDATA, prefixCDATA),
      Piece("close", suffixCDATA, suffixCDATA) }

Spans == SeqsUpTo(Parts, MaxParts)

\* The bytes XML gives the pieces d.
DecOf(d) == Flat([i \in 1..Len(d) |-> d[i].dec])

\* The scratch and out slices the calls are given: nil, one with no room
\* left, one with room.
Scratches ==
    { NilSlice, Caller(B(<<"p">>), 1), Caller(B(<<"p">>), 8) }

\* The room beyond what is needed that append gives a new array.
Grows == {0, 8}

InitDecode ==
    /\ doc \in Spans
    /\ NewScanner(RawOf(doc))

\* What a decoding call leaves behind: Scanner and adapter are not involved.
DecodeCall(name, s, r) ==
    /\ op' = name
    /\ given' = s
    /\ result' = r.out
    /\ err' = r.err
    /\ UNCHANGED <<buf, pos, token, chardata, ret, offset, whence, nexts,
                   trNext, xtoken, got, mark, doc, open, nested>>

\* DecodeEntities(buf, s)
CallDecodeEntities ==
    \E s \in Scratches, grow \in Grows :
        DecodeCall("DecodeEntities", s, DecodeEntities(buf, s, grow))

\* DecodeEntitiesAppend(s, buf)
CallDecodeEntitiesAppend ==
    \E s \in Scratches, grow \in Grows :
        DecodeCall("DecodeEntitiesAppend", s, DecodeEntitiesAppend(s, buf, grow))

\* CharData(buf, s)
CallCharData ==
    \E s \in Scratches, grow \in Grows :
        DecodeCall("CharData", s, CharData(buf, s, grow))

StepDecode == CallDecodeEntities \/ CallDecodeEntitiesAppend \/ CallCharData

SpecDecode == InitDecode /\ [][StepDecode]_vars

-----------------------------------------------------------------------------
(* Claims about decoding *)

\* Each '&' of the span starts a reference that names a character.
AllValid(d) == \A i \in 1..Len(d) : d[i].kind # "bad"

\* The span is a CDATA section: "<![CDATA[", a payload, "]]>".
IsCDATASection(d) ==
    Len(d) >= 2 /\ d[1].kind = "open" /\ d[Len(d)].kind = "close"

\* The payload of a CDATA section, as it was written.
Payload(d) == RawOf(SubSeq(d, 2, Len(d) - 1))

\* C9: CharData of a token that starts with "<![CDATA[" and ends with "]]>"
\* returns exactly the bytes between the two markers and no error; CharData
\* of any other token returns the token with each reference replaced by its
\* character, or an error when a reference names none.  (Calls with a nil
\* scratch, as the adapter makes them.)
C9_CharData ==
    (op = "CharData" /\ given.isnil) =>
        IF IsCDATASection(doc)
        THEN err = "nil" /\ result.b = Payload(doc)
        ELSE IF AllValid(doc)
        THEN err = "nil" /\ result.b = DecOf(doc)
        ELSE err # "nil"

\* C10: DecodeEntities of a span whose every '&' starts a reference to a
\* character returns, without error, the span with each reference replaced
\* by the UTF-8 encoding of its character and every other byte copied in
\* order.  (Calls with a nil scratch.)
C10_DecodeEntities ==
    (op = "DecodeEntities" /\ given.isnil /\ AllValid(doc)) =>
        (err = "nil" /\ result.b = DecOf(doc))

\* C11: DecodeEntities of a span with no '&' returns, without error, the
\* input span itself (not a copy, nothing appended to the scratch slice it
\* was given), so that DecodeEntities of the result returns that span again.
C11_FastPathReturnsInput ==
    (op = "DecodeEntities" /\ NoByte(buf, Ord["&"])) =>
        /\ err = "nil"
        /\ result = Borrow(buf, Len(buf))
        /\ \A s \in Scratches, grow \in Grows :
             DecodeEntities(result.b, s, grow) = Decoded(result, "nil")

\* C11's case: a span of several bytes with no '&', decoded with a scratch
\* slice that has bytes of its own and room for more.
C11_Witness ==
    /\ op = "DecodeEntities" /\ NoByte(buf, Ord["&"])
    /\ Len(buf) >= 2
    /\ given = Caller(B(<<"p">>), 8)
    /\ result.b = buf

-----------------------------------------------------------------------------
(* DecodeEntities over spans of references of every kind *)

\* References to characters, references to values that are no code point
\* ("invalid"), and references that fault: digits that are none, a name
\* that is unknown, an '&' on its own.
RefParts ==
    { Text(B(<<"a">>)),
      Piece("ref", B(<<"&", "n", "e", ";">>), <<226, 137, 160>>),
      Piece("ref", B(<<"&", "#", "6", "5", ";">>), B(<<"A">>)),
      Piece("invalid", B(<<"&", "#", "-", "1", ";">>), <<>>),
      Piece("invalid", B(<<"&", "#", "x", "D", "8", "0", "0", ";">>), <<>>),
      Piece("invalid", B(<<"&", "#", "x", "1", "1", "0", "0", "0", "0", ";">>), <<>>),
      Piece("bad", B(<<"&", "#", "x", "g", ";">>), <<>>),
      Piece("bad", B(<<"&", "z", "z", ";">>), <<>>),
      Piece("bad", B(<<"&">>), <<>>) }

InitRefs ==
    /\ doc \in SeqsUpTo(RefParts, MaxParts)
    /\ NewScanner(RawOf(doc))

SpecRefs == InitRefs /\ [][CallDecodeEntities]_vars

-----------------------------------------------------------------------------
(* Claims about references *)

\* The text (after an optional sign) is one or more digits of the base.
IsInteger(text, base) ==
    LET digits == IF text # <<>> /\ text[1] \in {Ord["+"], Ord["-"]}
                  THEN Tail(text) ELSE text
        ok == IF base = 10 THEN 48..57 ELSE (48..57) \cup (65..70) \cup (97..102)
    IN  digits # <<>> /\ \A k \in 1..Len(digits) : digits[k] \in ok

\* The names that stand for a character.
KnownNames ==
    { B(<<"l", "t">>), B(<<"g", "t">>), B(<<"a", "m", "p">>),
      B(<<"a", "p", "o", "s">>), B(<<"q", "u", "o", "t">>) } \cup DOMAIN HTMLEntity

\* What is wrong with the reference whose text (between '&' and ';') is
\* text: "nil" when nothing is.
FaultOf(text) ==
    IF text # <<>> /\ text[1] = Ord["#"]
    THEN IF Len(text) >= 2 /\ text[2] = Ord["x"]
         THEN IF IsInteger(SubSeq(text, 3, Len(text)), 16) THEN "nil" ELSE "failed to decode"
         ELSE IF IsInteger(Tail(text), 10) THEN "nil" ELSE "failed to decode"
    ELSE IF text \in KnownNames THEN "nil" ELSE "unknown XML entity"

RECURSIVE FirstFault(_)
\* Scanning the references of s from left to right, the first fault met:
\* "nil" when there is none.
FirstFault(s) ==
    LET amp == IndexByte(s, Ord["&"])
        rest == SubSeq(s, amp + 2, Len(s))
        semi == IndexByte(rest, Ord[";"])
    IN  IF amp = -1 THEN "nil"
        ELSE IF semi = -1 THEN "expected ';'"
        ELSE IF FaultOf(SubSeq(rest, 1, semi)) # "nil" THEN FaultOf(SubSeq(rest, 1, semi))
        ELSE FirstFault(SubSeq(rest, semi + 2, Len(rest)))

\* C12: when scanning the references of the span from left to right meets an
\* '&' with no ';' after it, a '#' reference whose digits are no integer, or
\* an unknown name, DecodeEntities returns the error of the first of them.
C12_ErrorOfFirstFault ==
    (op = "DecodeEntities" /\ FirstFault(buf) # "nil") => err = FirstFault(buf)

\* The first piece of d that is no text and no reference to a character is
\* a numeric reference to a value that is no code point.
FirstIsInvalid(d) ==
    \E i \in 1..Len(d) :
        /\ d[i].kind = "invalid"
        /\ \A j \in 1..(i - 1) : d[j].kind \in {"text", "ref"}

\* C13: a numeric reference whose text is an integer that is no Unicode code
\* point (negative, a surrogate, above 0x10FFFF) makes DecodeEntities fail
\* with the invalid-numeric-entity error and produce no output.
C13_InvalidCodePointFails ==
    (op = "DecodeEntities" /\ given.isnil /\ FirstIsInvalid(doc)) =>
        err = "failed to decode"


\* C14: DecodeEntitiesAppend(out, in) returns a slice that begins with the
\* contents of out, also when decoding fails, and when decoding succeeds the
\* bytes after that prefix are what DecodeEntities(in) returns.
C14_AppendKeepsPrefix ==
    op = "DecodeEntitiesAppend" =>
        /\ HasPrefix(result.b, given.b)
        /\ err = "nil" =>
             \E grow \in Grows :
                 /\ DecodeEntities(buf, NilSlice, grow).err = "nil"
                 /\ SubSeq(result.b, Len(given.b) + 1, Len(result.b))
                        = DecodeEntities(buf, NilSlice, grow).out.b


\* C15: when DecodeEntities is given no buffer and succeeds, the decoded
\* output is no longer than the input span, so the slice made with the
\* span's length as capacity is never outgrown.  The spans are closed under
\* prefixes that end with a reference, so the bound also holds of what has
\* been produced and consumed at each point of the decoding.
C15_OutputNoLongerThanInput ==
    (op = "DecodeEntities" /\ given.isnil /\ err = "nil") =>
        /\ Len(result.b) <= Len(buf)
        /\ result.cap = Len(buf)

C15_Witness ==
    /\ op = "DecodeEntities" /\ given.isnil /\ err = "nil"
    /\ result.arr = "new"
    /\ Len(doc) = 3
    /\ Len(buf) - Len(result.b) = 1


-----------------------------------------------------------------------------
(* Attrs over attribute spans put together from attributes, whitespace and
   malformed pieces *)

MaxAttrs == 3

\* A piece of an attributes span: its bytes and, for an attribute, the key
\* and the value written in it and the text the value stands for.
AttrPiece(kind, raw, key, value, dec) ==
    [kind |-> kind, raw |-> raw, key |-> key, value |-> value, dec |-> dec]

AttrParts ==
    { AttrPiece("attr", B(<<"k", "=", "\"", "v", "\"">>),
                B(<<"k">>), B(<<"v">>), B(<<"v">>)),
      AttrPiece("attr", B(<<"k", "k", "=", "\"", "v", "\"">>),
                B(<<"k", "k">>), B(<<"v">>), B(<<"v">>)),
      AttrPiece("attr", B(<<"a", ":", "b", " ", "=", " ", "\"", " ", "v", "\"">>),
                B(<<"a", ":", "b">>), B(<<" ", "v">>), B(<<" ", "v">>)),
      AttrPiece("attr", B(<<"k", "a", "=", "\"", "v", "&", "a", "m", "p", ";", "v", "\"">>),
                B(<<"k", "a">>), B(<<"v", "&", "a", "m", "p", ";", "v">>),
                B(<<"v", "&", "v">>)),
      AttrPiece("space", B(<<" ">>), <<>>, <<>>, <<>>),
      AttrPiece("space", B(<<"\t">>), <<>>, <<>>, <<>>),
      AttrPiece("bad", B(<<"=", "\"", "v", "\"">>), <<>>, <<>>, <<>>),
      AttrPiece("bad", B(<<"k", "k", "=">>), <<>>, <<>>, <<>>),
      AttrPiece("bad", B(<<"k", "k", "=", "\"">>), <<>>, <<>>, <<>>),
      AttrPiece("bad", B(<<"k", "k">>), <<>>, <<>>, <<>>) }

InitAttrs ==
    /\ doc \in SeqsUpTo(AttrParts, MaxAttrs)
    /\ NewScanner(RawOf(doc))

\* What Attrs(attrsToken, f) did with an f that never stops: the pairs f was
\* called with and the error returned.
AttrsCall(r) == [call |-> "Attrs", pairs |-> r.pairs, err |-> r.err]

\* Attrs(buf, f)
CallAttrs ==
    /\ op # "Attrs"
    /\ op' = "Attrs"
    /\ got' = AttrsCall(Attrs(buf))
    /\ UNCHANGED <<buf, pos, token, chardata, err, ret, offset, whence, nexts,
                   trNext, xtoken, given, result, mark, doc, open, nested>>

SpecAttrs == InitAttrs /\ [][CallAttrs]_vars

\* The attributes written in a span, in source order.
RECURSIVE ItemsOf(_)
ItemsOf(d) ==
    IF d = <<>> THEN <<>>
    ELSE IF Head(d).kind = "attr"
    THEN <<[key |-> Head(d).key, value |-> Head(d).value]>> \o ItemsOf(Tail(d))
    ELSE ItemsOf(Tail(d))

\* The span is made of attributes separated by whitespace.
Separated(d) ==
    /\ \A i \in 1..Len(d) : d[i].kind \in {"attr", "space"}
    /\ \A i \in 1..(Len(d) - 1) : ~(d[i].kind = "attr" /\ d[i + 1].kind = "attr")

\* C16: on a span of key = "value" items separated by whitespace, Attrs
\* calls back once per item, in source order, with the key trimmed of
\* whitespace and the raw bytes between the quotes, and returns no error.
C16_AttrsYieldsEachItem ==
    (op = "Attrs" /\ Separated(doc)) =>
        /\ got.err = "nil"
        /\ got.pairs = ItemsOf(doc)


\* The bytes of s after its first byte c.
AfterByte(s, c) == Slice(s, IndexByte(s, c) + 1, Len(s))

AllSpace(s) == \A i \in 1..Len(s) : IsSpace(s[i])

\* The malformation of an attributes span, looked for from left to right:
\* an '=' with nothing but whitespace before it, an '=' with no '"' after
\* it, an opening quote with no second '"', and, where no '=' is left,
\* something other than whitespace.
RECURSIVE Malformed(_)
Malformed(rest) ==
    IF NoByte(rest, Ord["="])
    THEN IF AllSpace(rest) THEN "nil" ELSE "expected whitespace"
    ELSE IF AllSpace(Slice(rest, 0, IndexByte(rest, Ord["="])))
    THEN "errAttrKeyWhitespace"
    ELSE IF NoByte(AfterByte(rest, Ord["="]), Ord["\""])
    THEN "errAttrPrefix"
    ELSE IF NoByte(AfterByte(AfterByte(rest, Ord["="]), Ord["\""]), Ord["\""])
    THEN "errAttrSuffix"
    ELSE Malformed(AfterByte(AfterByte(AfterByte(rest, Ord["="]), Ord["\""]),
                             Ord["\""]))

\* C17: Attrs returns the error of the first malformation of the span, and
\* nil when there is none; on a span that is empty or only whitespace it
\* returns nil and never calls back.
C17_AttrsErrors ==
    op = "Attrs" =>
        /\ got.err = Malformed(buf)
        /\ AllSpace(buf) => (got.err = "nil" /\ got.pairs = <<>>)

C17_Witness ==
    /\ op = "Attrs"
    /\ got.err = "expected whitespace"
    /\ Len(got.pairs) = 2


-----------------------------------------------------------------------------
(* Token over start tags: <a attributes> *)

\* The pieces of an attributes span, and an attribute whose value names no
\* known entity.
StartParts ==
    AttrParts \cup
    { AttrPiece("undecodable",
                B(<<"k", "k", "=", "\"", "&", "z", "z", ";", "\"">>),
                B(<<"k", "k">>), B(<<"&", "z", "z", ";">>), <<>>) }

\* The start tag of element a with the attributes span attrs.
StartTag(attrs) == B(<<"<", "a", " ">>) \o attrs \o B(<<">">>)

InitStart ==
    /\ doc \in SeqsUpTo(StartParts, MaxAttrs)
    /\ NewScanner(StartTag(RawOf(doc)))

SpecStart == InitStart /\ [][Token]_vars

\* The key of an attribute, split at its first ':'.
SplitKey(key) ==
    IF NoByte(key, Ord[":"]) THEN [space |-> <<>>, local |-> key]
    ELSE [space |-> Slice(key, 0, IndexByte(key, Ord[":"])),
          local |-> AfterByte(key, Ord[":"])]

\* The attribute list of a tag whose attributes are the pieces d.
RECURSIVE AttrListOf(_)
AttrListOf(d) ==
    IF d = <<>> THEN <<>>
    ELSE IF Head(d).kind = "attr"
    THEN <<[name |-> SplitKey(Head(d).key), value |-> Head(d).dec]>>
             \o AttrListOf(Tail(d))
    ELSE AttrListOf(Tail(d))

\* Token has just returned what it made of the start tag.
ReadStartTag == op = "Token" /\ token = buf

\* The span is made of attributes separated by whitespace, and the value of
\* one of them does not decode.
Undecodable(d) ==
    /\ \A i \in 1..Len(d) : d[i].kind \in {"attr", "undecodable", "space"}
    /\ \A i \in 1..(Len(d) - 1) : d[i].kind = "space" \/ d[i + 1].kind = "space"
    /\ \E i \in 1..Len(d) : d[i].kind = "undecodable"

\* C18: of a start tag, Token returns a StartElement with one attribute per
\* attribute of the tag, in source order, the key split at its first ':' and
\* the value entity-decoded; when an attribute is malformed or a value does
\* not decode, it returns an error and no StartElement.
C18_StartElementAttrs ==
    /\ (ReadStartTag /\ Separated(doc)) =>
           /\ err = "nil"
           /\ xtoken.kind = "StartElement"
           /\ xtoken.name = SplitKey(B(<<"a">>))
           /\ xtoken.attr = AttrListOf(doc)
    /\ (ReadStartTag /\ Malformed(RawOf(doc)) # "nil") =>
           /\ err # "nil"
           /\ xtoken = NilToken
    /\ (ReadStartTag /\ Undecodable(doc)) =>
           /\ err = "unknown XML entity"
           /\ xtoken = NilToken


-----------------------------------------------------------------------------
(* Element, IsComment and IsDirective on the tag tokens < bytes > *)

MaxTag == 4

\* The bytes a tag is put together from.
TagParts ==
    { AttrPiece("byte", <<c>>, <<>>, <<>>, <<>>) :
        c \in {Ord["/"], Ord[" "], Ord["a"], Ord["!"], Ord["-"]} }

\* The tag token with the bytes inner between its '<' and '>'.
Tag(inner) == B(<<"<">>) \o inner \o B(<<">">>)

InitTag ==
    /\ doc \in SeqsUpTo(TagParts, MaxTag)
    /\ NewScanner(Tag(RawOf(doc)))

\* What Element(token) did: whether it panicked, and the name and the
\* attributes it returned.
ElementCall(el) ==
    [call |-> "Element", panic |-> el.panic, name |-> el.name, attrs |-> el.attrs]

\* What IsComment(token) and IsDirective(token) returned.
ClassCall(comment, directive) ==
    [call |-> "Is", comment |-> comment, directive |-> directive]

\* A call of a helper on the token buf, returning r.
HelperCall(name, r) ==
    /\ op # name
    /\ op' = name
    /\ got' = r
    /\ UNCHANGED <<buf, pos, token, chardata, err, ret, offset, whence, nexts,
                   trNext, xtoken, given, result, mark, doc, open, nested>>

\* Element(buf)
CallElement == HelperCall("Element", ElementCall(Element(buf)))

\* IsComment(buf) and IsDirective(buf)
CallIs == HelperCall("Is", ClassCall(IsComment(buf), IsDirective(buf)))

StepTag == CallElement \/ CallIs

SpecTag == InitTag /\ [][StepTag]_vars

\* The text of a tag between its '<', with the '/' of an end tag, and its
\* '>', with the '/' of a self-closing tag.
Unopened(t) == IF Len(t) >= 2 /\ t[2] = Ord["/"] THEN Slice(t, 2, Len(t)) ELSE Tail(t)

Unclosed(t) ==
    IF Len(t) >= 2 /\ t[Len(t) - 1] = Ord["/"] THEN Slice(t, 0, Len(t) - 2)
    ELSE Slice(t, 0, Len(t) - 1)

Inner(t) == Unclosed(Unopened(t))

\* C19: of a tag token Element returns, without fault, the name (the text
\* from the '<', and the '/' of an end tag, to the first space or else to the
\* '>', or '/>' of a self-closing tag) and the attributes (what follows the
\* first space, empty when there is none).
C19_ElementNameAndAttrs ==
    op = "Element" =>
        /\ ~got.panic
        /\ got.name = IF NoByte(Inner(buf), Ord[" "]) THEN Inner(buf)
                      ELSE Slice(Inner(buf), 0, IndexByte(Inner(buf), Ord[" "]))
        /\ got.attrs = IF NoByte(Inner(buf), Ord[" "]) THEN <<>>
                       ELSE AfterByte(Inner(buf), Ord[" "])


\* C20: a tag token that begins with <! is a comment or a directive and
\* never both: IsComment holds exactly of the tokens that begin with <!--,
\* IsDirective exactly of those that begin with <! and not with <!--.
C20_CommentOrDirective ==
    op = "Is" =>
        /\ got.comment <=> HasPrefix(buf, B(<<"<", "!", "-", "-">>))
        /\ got.directive <=> (HasPrefix(buf, B(<<"<", "!">>))
                                 /\ ~HasPrefix(buf, B(<<"<", "!", "-", "-">>)))


-----------------------------------------------------------------------------
(* Next and Skip over buffers of tags of every shape, nested or not *)

MaxSkip == 3

\* Tags, text and markup as in a document, and the tags </>, <//>, </a/>
\* and <>, and a tag that is not closed.
SkipNodes ==
    { Node("start", "a", B(<<"<", "a", ">">>)),
      Node("end", "a", B(<<"<", "/", "a", ">">>)),
      Node("empty", "a", B(<<"<", "a", "/", ">">>)),
      Node("text", "", B(<<"t">>)),
      Node("comment", "", B(<<"<", "!", "-", "-", "c", "-", "-", ">">>)),
      Node("procinst", "", B(<<"<", "?", "p", " ", "q", "?", ">">>)),
      Node("odd", "", B(<<"<", "/", ">">>)),
      Node("odd", "", B(<<"<", "/", "/", ">">>)),
      Node("odd", "a", B(<<"<", "/", "a", "/", ">">>)),
      Node("odd", "", B(<<"<", ">">>)),
      Node("open", "", B(<<"<", "a">>)) }

InitSkip ==
    /\ doc \in SeqsUpTo(SkipNodes, MaxSkip)
    /\ NewScanner(RawOf(doc))

SpecSkip == InitSkip /\ [][Next \/ Skip]_vars

\* A raw token is an end tag when it begins with "</", and a start tag when
\* it is a tag that begins with neither "</", "<!" nor "<?".
IsEndTag(t) == HasPrefix(t, B(<<"<", "/">>))

IsStartTag(t) ==
    /\ HasPrefix(t, B(<<"<">>))
    /\ ~HasPrefix(t, B(<<"<", "/">>))
    /\ ~HasPrefix(t, B(<<"<", "!">>))
    /\ ~HasPrefix(t, B(<<"<", "?">>))

\* What a token adds to the number of end tags over that of the start tags
\* that are not self-closing.
Weight(t, c) ==
    IF c THEN 0
    ELSE IF IsEndTag(t) THEN 1
    ELSE IF IsStartTag(t) /\ ~EndsSelfClosing(t) THEN -1
    ELSE 0

RECURSIVE ToFirstExcess(_, _, _)
\* Reading tokens from p, with excess end tags so far: the error met before
\* the end tags exceed the start tags by one, or nil and the offset behind
\* the first token with which they do.
AfterToken(b, r, excess) ==
    IF r.err # "nil" THEN [err |-> r.err, pos |-> r.pos]
    ELSE IF excess + Weight(r.token, r.chardata) = 1 THEN [err |-> "nil", pos |-> r.pos]
    ELSE ToFirstExcess(b, r.pos, excess + Weight(r.token, r.chardata))

ToFirstExcess(b, p, excess) == AfterToken(b, ScannerNext(b, p), excess)

\* C21: when the end of the buffer or a scanner error comes before the end
\* tags exceed the start tags that are not self-closing by one, Skip returns
\* that error; and when Skip returns nil, it has consumed the tokens up to
\* the first one with which they do, and no more.
C21_SkipErrorOrFirstExcess ==
    [][op' = "Skip" =>
         /\ ToFirstExcess(buf, pos, 0).err # "nil" =>
                err' = ToFirstExcess(buf, pos, 0).err
         /\ err' = "nil" =>
                ToFirstExcess(buf, pos, 0) = [err |-> "nil", pos |-> pos']]_vars


\* C22: when the token Next has just returned is a self-closing start tag,
\* Skip skips nothing: it returns nil and leaves the offset where it was, so
\* that the next Next returns the token that follows the tag.
C22_SkipAfterSelfClosing ==
    [][(op = "Next" /\ err = "nil" /\ ~chardata
          /\ IsStartTag(token) /\ EndsSelfClosing(token)
          /\ op' = "Skip")
         => (err' = "nil" /\ pos' = pos)]_vars


-----------------------------------------------------------------------------
(* Seek back to a recorded offset and Next again *)

MaxSeek == 2

\* A tag, text, a CDATA section and a tag that is not closed.
SeekNodes ==
    { Node("start", "a", B(<<"<", "a", ">">>)),
      Node("text", "", B(<<"t">>)),
      Node("cdata", "", prefixCDATA \o suffixCDATA),
      Node("open", "", B(<<"<", "a">>)) }

InitSeek ==
    /\ doc \in SeqsUpTo(SeekNodes, MaxSeek)
    /\ NewScanner(RawOf(doc))

\* What the caller keeps of a call of Next: the Offset() before it and what
\* the call returned.
Marked(o, r) == [set |-> TRUE, o |-> o, t |-> r.token, c |-> r.chardata, e |-> r.err]

\* o := s.Offset(); s.Next()
MarkNext ==
    /\ mark' = Marked(pos, ScannerNext(buf, pos))
    /\ op' = "Next"
    /\ token' = ScannerNext(buf, pos).token
    /\ chardata' = ScannerNext(buf, pos).chardata
    /\ err' = ScannerNext(buf, pos).err
    /\ pos' = ScannerNext(buf, pos).pos
    /\ ret' = 0
    /\ offset' = 0
    /\ whence' = 0
    /\ nexts' = IF nexts < 2 THEN nexts + 1 ELSE 3
    /\ UNCHANGED <<buf, trNext, xtoken, given, result, got, doc, open, nested>>

\* The offset that, with whence w, names the position o.
OffsetTo(o, w) ==
    IF w = SeekStart THEN o
    ELSE IF w = SeekCurrent THEN o - pos
    ELSE o - Len(buf)

\* s.Seek(d, w), r being what it returns.
SeekCall(name, d, w, r) ==
    /\ op' = name
    /\ ret' = r.ret
    /\ err' = r.err
    /\ pos' = r.pos
    /\ offset' = d
    /\ whence' = w
    /\ token' = <<>>
    /\ chardata' = FALSE
    /\ nexts' = 3
    /\ UNCHANGED <<buf, others>>

\* s.Seek to the recorded offset: from the start, or by the equivalent
\* offset from the current position or from the end.
SeekTo ==
    /\ mark.set
    /\ \E w \in {SeekStart, SeekCurrent, SeekEnd} :
         SeekCall("SeekTo", OffsetTo(mark.o, w), w,
                  ScannerSeek(buf, pos, OffsetTo(mark.o, w), w))

StepSeek == MarkNext \/ Next \/ Skip \/ Seek \/ SeekTo

SpecSeek == InitSeek /\ [][StepSeek]_vars

\* C23: whatever was called since, a Seek to an offset recorded before a
\* call of Next succeeds and leaves the cursor there, and the Next that
\* follows returns what that call returned, leaving the cursor behind the
\* token when it returns no error; no Seek changes the buffer the tokens
\* returned earlier are part of.
C23_SeekBackRepeatsNext ==
    [][/\ op' = "SeekTo" => (err' = "nil" /\ pos' = mark.o /\ ret' = mark.o)
       /\ (op = "SeekTo" /\ op' = "Next") =>
              /\ token' = mark.t /\ chardata' = mark.c /\ err' = mark.e
              /\ mark.e = "nil" => pos' = mark.o + Len(mark.t)
       /\ op' \in {"Seek", "SeekTo"} => buf' = buf]_vars

\* C23's case: after the Next that returned the second token, a tag, a Seek
\* by minus its length from the current position has gone back to the
\* recorded offset, where Next is to return the tag again.
C23_Witness ==
    /\ op = "SeekTo" /\ err = "nil"
    /\ whence = SeekCurrent /\ offset = -Len(mark.t)
    /\ mark.e = "nil" /\ ~mark.c /\ mark.o > 0
    /\ pos = mark.o
    /\ ScannerNext(buf, pos).token = mark.t


-----------------------------------------------------------------------------
(* Token and Next on the same Scanner *)

SpecEOF == InitXML /\ [][Token \/ Next]_vars

SpecScan == Init /\ [][Next]_vars

\* The tokens of the calls of Next from the offset p on, the partial token
\* of a scanner error last, for at most fuel calls.
RECURSIVE Scanned(_, _, _)
ScannedAfter(b, r, fuel) ==
    IF r.err = "EOF" THEN <<>>
    ELSE IF r.err # "nil" THEN <<r.token>>
    ELSE <<r.token>> \o Scanned(b, r.pos, fuel - 1)

Scanned(b, p, fuel) ==
    IF fuel = 0 THEN <<>> ELSE ScannedAfter(b, ScannerNext(b, p), fuel)

\* C25: a Next without error returns the non-empty bytes between the
\* offsets before and after it, the latter the greater; a Next with a
\* scanner error returns the rest of the buffer; and the tokens of the
\* calls from offset 0 on, of which the successful are at most len(buf),
\* are non-empty and make up the buffer.
C25_TokensTileBuffer ==
    [][op' = "Next" =>
        /\ err' = "nil" =>
              /\ token' # <<>>
              /\ pos' > pos
              /\ token' = Slice(buf, pos, pos')
        /\ err' \notin {"nil", "EOF"} => token' = Slice(buf, pos, Len(buf))
        /\ err' = "EOF" => pos = Len(buf)
        /\ Flat(Scanned(buf, 0, Len(buf) + 1)) = buf
        /\ Len(Scanned(buf, 0, Len(buf) + 1)) <= Len(buf)
        /\ \A i \in 1..Len(Scanned(buf, 0, Len(buf) + 1)) :
              Scanned(buf, 0, Len(buf) + 1)[i] # <<>>]_vars

\* C25's case: the third Next from offset 0 returned, after a tag and
\* character data, the partial token of a scanner error.
C25_Witness ==
    /\ op = "Next" /\ nexts = 3 /\ err = "errElementSuffix"
    /\ Len(Scanned(buf, 0, Len(buf) + 1)) = 3
    /\ Scanned(buf, 0, Len(buf) + 1)[1] = B(<<"<", "a", ">">>)
    /\ Scanned(buf, 0, Len(buf) + 1)[2] = B(<<"a">>)
    /\ token = Scanned(buf, 0, Len(buf) + 1)[3]
    /\ pos = Len(buf) - Len(token)


\* ---------------------------------------------------------------------
\* Token over tags of every kind, converted or not
\* ---------------------------------------------------------------------

MaxToks == 3

\* Tags and text Token converts, self-closing or not, and those it returns
\* an error for: attributes without a value, values and text that do not
\* decode, a tag that is not closed, and </>.
TokenNodes ==
    { Node("start", "a", B(<<"<", "a", ">">>)),
      Node("end", "a", B(<<"<", "/", "a", ">">>)),
      Node("empty", "a", B(<<"<", "a", "/", ">">>)),
      Node("empty", "b", B(<<"<", "b", " ", "k", "k", "=", "\"", "v", "\"", "/", ">">>)),
      Node("malformed", "a", B(<<"<", "a", " ", "k", "k", "/", ">">>)),
      Node("undecodable", "a",
           B(<<"<", "a", " ", "k", "k", "=", "\"", "&", "z", "z", ";", "\"", "/", ">">>)),
      Node("text", "", B(<<"t">>)),
      Node("undecodable", "", B(<<"&", "z", "z", ";">>)),
      Node("comment", "", B(<<"<", "!", "-", "-", "c", "/", "-", "-", ">">>)),
      Node("directive", "", B(<<"<", "!", "D", "/", ">">>)),
      Node("procinst", "", B(<<"<", "?", "p", " ", "q", "/", "?", ">">>)),
      Node("odd", "", B(<<"<", "/", ">">>)),
      Node("open", "", B(<<"<", "a", "/">>)) }

InitToks ==
    /\ doc \in SeqsUpTo(TokenNodes, MaxToks)
    /\ NewScanner(RawOf(doc))

SpecToks == InitToks /\ [][Token]_vars

\* C26: the pending slot is empty or holds one EndElement, and it is not
\* empty exactly when the last Token call returned, without error, a
\* StartElement made from a raw tag that ends with "/>"; it is empty on a
\* new adapter.
C26_PendingSlot ==
    /\ trNext # NilToken <=>
          /\ op = "Token" /\ err = "nil"
          /\ xtoken.kind = "StartElement"
          /\ EndsSelfClosing(token)
    /\ trNext # NilToken =>
          /\ trNext.kind = "EndElement"
          /\ trNext.name = xtoken.name
    /\ op = "New" => trNext = NilToken

\* C26's case: a self-closing tag whose attribute value does not decode was
\* answered with an error, and the self-closing tag after it with a
\* StartElement that left its EndElement pending.
C26_Witness ==
    /\ op = "Token" /\ err = "nil" /\ xtoken.kind = "StartElement"
    /\ trNext.kind = "EndElement"
    /\ Len(doc) = 2 /\ doc[1].kind = "undecodable" /\ doc[1].name = "a"
    /\ doc[2].kind = "empty" /\ token = doc[2].raw
    /\ pos = Len(buf)


\* ---------------------------------------------------------------------
\* Numeric references and the capacity of the slice decoded into
\* ---------------------------------------------------------------------

\* One of the pieces d is a numeric reference to a character.
HasNumeric(d) ==
    \E i \in 1..Len(d) :
        d[i].kind = "ref" /\ HasPrefix(d[i].raw, B(<<"&", "#">>))

\* C27, as stated: whatever the length and capacity of the slice given,
\* DecodeEntities and DecodeEntitiesAppend of a span that holds a numeric
\* reference, every reference of it valid, complete without a fault and
\* return the contents of the slice followed by the decoded bytes.
C27_NumericWithinCapacity ==
    (op \in {"DecodeEntities", "DecodeEntitiesAppend"}
       /\ HasNumeric(doc) /\ AllValid(doc)) =>
        /\ err = "nil"
        /\ result.b = given.b \o DecOf(doc)


\* ---------------------------------------------------------------------
\* Skip's depth and the adapter's tokens
\* ---------------------------------------------------------------------

\* Next, Skip and Token on one Scanner and its adapter
SpecDepth == InitSkip /\ [][Next \/ Skip \/ Token]_vars

\* Skip changes its depth by d for a raw token of which the adapter makes x:
\* by +1 exactly for a StartElement with no EndElement left pending, by -1
\* exactly for an EndElement, by 0 exactly for a Directive, a Comment, a
\* ProcInst and a StartElement that leaves its EndElement pending.
DepthAgrees(d, x) ==
    /\ d = 1 <=> (x.err = "nil" /\ x.tok.kind = "StartElement" /\ x.next = NilToken)
    /\ d = -1 <=> (x.err = "nil" /\ x.tok.kind = "EndElement")
    /\ d = 0 <=>
          /\ x.err = "nil"
          /\ \/ x.tok.kind \in {"Directive", "Comment", "ProcInst"}
             \/ x.tok.kind = "StartElement" /\ x.next # NilToken

\* Where the adapter's depth, depth before the Token call on the Scanner at
\* p with nx pending, returns to 0: the error of the Token call that fails
\* before it does, or the Scanner's offset after the EndElement that
\* brings it there.
RECURSIVE AdapterWalk(_, _, _, _)
AdapterAfter(b, r, depth) ==
    IF r.err # "nil" THEN [err |-> r.err, pos |-> r.pos]
    ELSE IF r.tok.kind = "StartElement" THEN AdapterWalk(b, r.pos, r.next, depth + 1)
    ELSE IF r.tok.kind # "EndElement" THEN AdapterWalk(b, r.pos, r.next, depth)
    ELSE IF depth = 1 THEN [err |-> "nil", pos |-> r.pos]
    ELSE AdapterWalk(b, r.pos, r.next, depth - 1)

AdapterWalk(b, p, nx, depth) == AdapterAfter(b, TokenReaderToken(b, p, nx), depth)

\* C28, as stated: for every token Next returns that is not character
\* data, Skip's change of depth agrees with what the adapter makes of the
\* token; and a Skip that follows a StartElement returned by Token ends
\* where the adapter's depth returns to the level before that StartElement.
C28_SkipDepthAgreesWithAdapter ==
    [][/\ (op' = "Next" /\ err' = "nil" /\ ~chardata') =>
              DepthAgrees(SkipDepth(0, token', FALSE),
                          Convert(ScannerNext(buf, pos)))
       /\ (op = "Token" /\ err = "nil" /\ xtoken.kind = "StartElement"
             /\ op' = "Skip" /\ AdapterWalk(buf, pos, trNext, 1).err = "nil") =>
              /\ err' = "nil"
              /\ pos' = AdapterWalk(buf, pos, trNext, 1).pos]_vars


-----------------------------------------------------------------------------
(* token.go: tokens that borrow from the buffer, and their copies *)

\* A []byte of a token: the len bytes at off of the source buffer, or bytes
\* of an array of its own.
Ref(off, len) == [arr |-> "buf", off |-> off, len |-> len, own |-> <<>>]

Own(bytes) == [arr |-> "own", off |-> 0, len |-> Len(bytes), own |-> bytes]

\* The bytes the slice r holds while the source buffer holds b.
BytesOf(r, b) ==
    IF r.arr = "buf" THEN Slice(b, r.off, r.off + r.len) ELSE r.own

\* makeCopy
makeCopy(r, b) == Own(BytesOf(r, b))

\* Name
NameOf(space, local) == [space |-> space, local |-> local]

\* Attr
AttrOf(name, value) == [name |-> name, value |-> value]

\* A Token: StartElement (name, attr), EndElement (name), CDATA, CharData,
\* Comment and Directive (data), ProcInst (target, inst).
Tok(kind, name, attr, data, target, inst) ==
    [kind |-> kind, name |-> name, attr |-> attr, data |-> data,
     target |-> target, inst |-> inst]

\* A field the kind of the token does not have.
NoBytes == Own(<<>>)

\* Name.Copy
NameCopy(n, b) == NameOf(makeCopy(n.space, b), makeCopy(n.local, b))

\* Attr.Copy
AttrCopy(a, b) == AttrOf(NameCopy(a.name, b), makeCopy(a.value, b))

\* StartElement.Copy
StartElementCopy(e, b) ==
    [e EXCEPT !.name = NameCopy(e.name, b),
              !.attr = [i \in 1..Len(e.attr) |-> AttrCopy(e.attr[i], b)]]

\* EndElement.Copy
EndElementCopy(e, b) == [e EXCEPT !.name = NameCopy(e.name, b)]

\* CDATA.Copy, CharData.Copy, Comment.Copy, Directive.Copy
DataCopy(c, b) == [c EXCEPT !.data = makeCopy(c.data, b)]

\* ProcInst.Copy
ProcInstCopy(q, b) ==
    [q EXCEPT !.target = makeCopy(q.target, b), !.inst = makeCopy(q.inst, b)]

\* CopyToken: the type switch has no case for EndElement, which is returned
\* as it is.
CopyToken(t, b) ==
    IF t.kind \in {"CharData", "CDATA", "Comment", "Directive"} THEN DataCopy(t, b)
    ELSE IF t.kind = "ProcInst" THEN ProcInstCopy(t, b)
    ELSE IF t.kind = "StartElement" THEN StartElementCopy(t, b)
    ELSE t

\* The longest buffer tokens are taken from.
MaxBuf == 2

\* The bytes of the buffer, and those written to it.
BufBytes == {Ord["a"], Ord["b"]}

\* The slices of the buffer b.
Refs(b) ==
    UNION {{Ref(off, len) : len \in 0..(Len(b) - off)} : off \in 0..Len(b)}

Names(b) == {NameOf(space, local) : space \in Refs(b), local \in Refs(b)}

Attributes(b) == {AttrOf(n, value) : n \in Names(b), value \in Refs(b)}

\* The tokens whose bytes are slices of b: of each kind, a StartElement
\* with no attribute or one.
Tokens(b) ==
    {Tok(k, NameOf(NoBytes, NoBytes), <<>>, d, NoBytes, NoBytes) :
        k \in {"CharData", "CDATA", "Comment", "Directive"}, d \in Refs(b)}
    \cup {Tok("ProcInst", NameOf(NoBytes, NoBytes), <<>>, NoBytes, target, inst) :
             target \in Refs(b), inst \in Refs(b)}
    \cup {Tok("EndElement", n, <<>>, NoBytes, NoBytes, NoBytes) : n \in Names(b)}
    \cup {Tok("StartElement", n, attr, NoBytes, NoBytes, NoBytes) :
             n \in Names(b), attr \in {<<>>} \cup {<<a>> : a \in Attributes(b)}}

InitCopy ==
    /\ doc = <<>>
    /\ \E b \in SeqsUpTo({<<c>> : c \in BufBytes}, MaxBuf) : NewScanner(Flat(b))

\* The bytes of the token t while the source buffer holds b.
ContentOf(t, b) ==
    [kind |-> t.kind,
     name |-> [space |-> BytesOf(t.name.space, b), local |-> BytesOf(t.name.local, b)],
     attr |-> [i \in 1..Len(t.attr) |->
                  [space |-> BytesOf(t.attr[i].name.space, b),
                   local |-> BytesOf(t.attr[i].name.local, b),
                   value |-> BytesOf(t.attr[i].value, b)]],
     data |-> BytesOf(t.data, b),
     target |-> BytesOf(t.target, b),
     inst |-> BytesOf(t.inst, b)]

\* What a call of CopyToken leaves behind: its argument, the copy, and the
\* bytes of the argument at the time of the call.
CopyCall(t, copy, b) ==
    [call |-> "CopyToken", arg |-> t, copy |-> copy, was |-> ContentOf(t, b)]

\* CopyToken(t), t a token of the buffer
CallCopyToken ==
    /\ got = NoCall
    /\ \E t \in Tokens(buf) : got' = CopyCall(t, CopyToken(t, buf), buf)
    /\ op' = "CopyToken"
    /\ UNCHANGED <<buf, pos, token, chardata, err, ret, offset, whence, nexts,
                   trNext, xtoken, given, result, mark, doc, open, nested>>

\* buf[i] = c, by the owner of the buffer, after the copy was made
Write ==
    /\ got # NoCall
    /\ \E i \in 1..Len(buf), c \in BufBytes :
          /\ buf[i] # c
          /\ buf' = [buf EXCEPT ![i] = c]
    /\ op' = "Write"
    /\ UNCHANGED <<pos, token, chardata, err, ret, offset, whence, nexts,
                   trNext, xtoken, given, result, got, mark, doc, open, nested>>

SpecCopy == InitCopy /\ [][CallCopyToken \/ Write]_vars

\* C29, as stated: the token CopyToken returns holds the bytes its argument
\* held at the call, whatever is written to the buffer afterwards.
C29_CopySurvivesWrites ==
    got.call = "CopyToken" => ContentOf(got.copy, buf) = got.was


-----------------------------------------------------------------------------
(* Reset under an adapter *)

\* The most elements the adapter has left open when the Scanner is rebound.
MaxOpen == 2

\* s.Reset(b), s being the Scanner of an adapter
Rebind == Len(open) <= MaxOpen /\ Reset

\* A Scanner, and its adapter, over one tag or text.
InitReset ==
    /\ doc \in SeqsUpTo(TokenNodes, 1)
    /\ NewScanner(RawOf(doc))

\* Next, Token and Reset on one Scanner and its adapter
SpecReset == InitReset /\ [][Next \/ Token \/ Rebind]_vars

\* C30, as stated: Reset leaves the offset at 0, and the Next or the Token
\* that follows it returns what it returns on a new Scanner, and a new
\* adapter, over the new buffer, whatever was pending at the Reset.
C30_ResetForgets ==
    [][/\ op' = "Reset" => pos' = 0
       /\ (op = "Reset" /\ op' = "Next") =>
              /\ token' = ScannerNext(buf, 0).token
              /\ chardata' = ScannerNext(buf, 0).chardata
              /\ err' = ScannerNext(buf, 0).err
              /\ pos' = ScannerNext(buf, 0).pos
       /\ (op = "Reset" /\ op' = "Token") =>
              /\ xtoken' = TokenReaderToken(buf, 0, NilToken).tok
              /\ err' = TokenReaderToken(buf, 0, NilToken).err
              /\ pos' = TokenReaderToken(buf, 0, NilToken).pos]_vars

=============================================================================
